---- MODULE Spec2Model ----
(***************************************************************************)
(* Order-creation / payment-reconciliation / stock-reservation pipeline   *)
(* of the kulangara backend: stock.service (reserveStock, restoreStock),  *)
(* order.controller (createOrder, cancelOrder, updateOrderStatus) and     *)
(* payment.controller (createRazorpayOrderFromCart, verifyPayment,        *)
(* verifyPaymentAndCreateOrder, handleWebhook, updatePaymentStatus).      *)
(* cache.service (cacheWrapper, getCache, setCache) is modelled through   *)
(* listOrders.                                                             *)
(*                                                                         *)
(* Money is counted in units of 0.005 currency, so that the 0.01 epsilon  *)
(* of the subtotal comparison is 2 units.  A data-store call is one step; *)
(* a prisma.$transaction is one all-or-nothing step.                       *)
(***************************************************************************)
EXTENDS Integers, Sequences, FiniteSets, TLC

\* ---------------------------------------------------------------- bounds
InitStock == 2
MaxQty == 2
MaxItems == 2
NumCalls == 2
NumProcs == 2
MaxIntents == 2
MaxSessions == 1
MaxOrders == 2
MaxHistory == 3

\* ------------------------------------------------------------- catalogue
Products == {"P1"}
Variants == {"V1"}
Units == Products \cup Variants
NoVariant == "none"
NoPrice == 0 - 1
ProductIds == Products \cup {"PX"}
VariantIds == Variants \cup {NoVariant}

UnitOf(item) == IF item.variantId # NoVariant THEN item.variantId ELSE item.productId

Calls == 1..NumCalls
Procs == 1..NumProcs
Intents == 1..MaxIntents
Users == {"u1", "u2"}
Buyers == {"u1"}
NoCoupon == "none"
NoIntent == [userId |-> "none"]
NoOrder == 0
Miss == [miss |-> TRUE]
Prices == {10, 13}
Epsilon == 2

VARIABLES
    stock,      \* product.stockQuantity / productVariant.stock, per unit
    price,      \* product.price / productVariant.price (NoPrice = null)
    rs,         \* in-flight reserveStock calls on the default client
    orders,     \* Order rows with their items and statusHistory; id = index
    usageCount, \* coupon.usageCount of the coupon "SAVE"
    cart,       \* per user: "none" | "empty" | "filled"
    tempOrder,  \* redis temp_order:<razorpay order id>
    minted,     \* number of gateway orders created so far
    req,        \* in-flight requests suspended at an await
    resp,       \* response sent by the last step, if any
    cache       \* redis: whether it answers, and the keys of the cache service

dbvars == <<stock, orders, usageCount, cart>>
vars == <<stock, price, rs, orders, usageCount, cart, tempOrder, minted, req, resp, cache>>

\* ------------------------------------------------- stock.service: reserve
\* prismaClient.product / productVariant .findUnique({ where: { id } })
findUnique(stk, item) == UnitOf(item) \in DOMAIN stk

\* prismaClient.*.update({ where: { id, stock: { gte: q } },
\*                         data: { stock: { decrement: q } } }):
\* one conditional write; no matching record raises P2025.
updateWhereGteUnchecked(stk, u, q) ==
    [matched |-> TRUE, stock |-> [stk EXCEPT ![u] = @ - q]]

updateWhereGte(stk, u, q) ==
    IF stk[u] >= q
    THEN [matched |-> TRUE, stock |-> [stk EXCEPT ![u] = @ - q]]
    ELSE [matched |-> FALSE, stock |-> stk]

\* currentPrice = variant.price || 0  /  product.price
currentPrice(prc, item) ==
    IF item.variantId # NoVariant
    THEN (IF prc[item.variantId] = NoPrice THEN 0 ELSE prc[item.variantId])
    ELSE prc[item.productId]

NoResp == [op |-> "none", code |-> 0, sig |-> "none", msg |-> "none", ref |-> 0]
IdleReq == [op |-> "idle"]

IdleCall == [pc |-> "idle", items |-> <<>>, idx |-> 0, cur |-> 0,
             reservedItems |-> <<>>, result |-> "none"]

\* reserveStock(items) entered with the default (non-transactional) client
reserveStockCall(c, items) ==
    /\ rs[c].pc = "idle"
    /\ rs' = [rs EXCEPT ![c] = [IdleCall EXCEPT !.pc = "find", !.items = items, !.idx = 1]]
    /\ UNCHANGED <<stock, price, orders, usageCount, cart, tempOrder, minted, req, resp, cache>>

\* loop head + findUnique of the current item
reserveStockFind(c) ==
    /\ rs[c].pc = "find"
    /\ LET item == rs[c].items[rs[c].idx] IN
         IF findUnique(stock, item)
         THEN rs' = [rs EXCEPT ![c].pc = "update", ![c].cur = currentPrice(price, item)]
         ELSE rs' = [rs EXCEPT ![c].pc = "done", ![c].result = "notFound"]
    /\ UNCHANGED <<stock, price, orders, usageCount, cart, tempOrder, minted, req, resp, cache>>

\* conditional update of the current item, push, next iteration / return
reserveStockUpdate(c) ==
    /\ rs[c].pc = "update"
    /\ LET item == rs[c].items[rs[c].idx]
           upd == updateWhereGte(stock, UnitOf(item), item.quantity) IN
         IF upd.matched
         THEN /\ stock' = upd.stock
              /\ rs' = [rs EXCEPT
                    ![c].reservedItems = Append(@, [item |-> item, price |-> rs[c].cur]),
                    ![c].idx = @ + 1,
                    ![c].pc = IF rs[c].idx = Len(rs[c].items) THEN "done" ELSE "find",
                    ![c].result = IF rs[c].idx = Len(rs[c].items) THEN "success" ELSE "none"]
         ELSE /\ stock' = stock
              /\ rs' = [rs EXCEPT ![c].pc = "done", ![c].result = "failed"]
    /\ UNCHANGED <<price, orders, usageCount, cart, tempOrder, minted, req, resp, cache>>

\* reserveStock(items, tx): the same loop run to completion on the
\* transaction client; stock is the transaction's working copy.
RECURSIVE reserveStockFrom(_, _, _, _)
reserveStockFrom(stk, prc, items, acc) ==
    IF items = <<>>
    THEN [success |-> TRUE, message |-> "none", reservedItems |-> acc, stock |-> stk, at |-> 0]
    ELSE LET item == Head(items) IN
         IF ~findUnique(stk, item)
         THEN [success |-> FALSE, message |-> "not found", reservedItems |-> <<>>,
               stock |-> stk, at |-> Len(acc) + 1]
         ELSE LET upd == updateWhereGte(stk, UnitOf(item), item.quantity) IN
              IF ~upd.matched
              THEN [success |-> FALSE, message |-> "Stock reservation failed",
                    reservedItems |-> <<>>, stock |-> stk, at |-> Len(acc) + 1]
              ELSE reserveStockFrom(upd.stock, prc, Tail(items),
                                    Append(acc, [productId |-> item.productId,
                                                 variantId |-> item.variantId,
                                                 quantity |-> item.quantity,
                                                 price |-> currentPrice(prc, item)]))

reserveStock(stk, prc, items) == reserveStockFrom(stk, prc, items, <<>>)

\* --------------------------------------------------- signature verifier
KeySecret == "RAZORPAY_KEY_SECRET"
WebhookSecret == "RAZORPAY_WEBHOOK_SECRET"
SigKinds == {"valid", "wrongKey", "otherBody", "missing"}
BadKinds == SigKinds \ {"valid"}

\* crypto.createHmac("sha256", secret).update(material).digest("hex")
createHmac(secret, material) == [present |-> TRUE, key |-> secret, msg |-> material]

\* what the caller puts in razorpay_signature / x-razorpay-signature
presented(kind, secret, material) ==
    CASE kind = "valid" -> createHmac(secret, material)
      [] kind = "wrongKey" -> createHmac("guess", material)
      [] kind = "otherBody" -> createHmac(secret, <<material[1], material[2] + 1>>)
      [] OTHER -> [present |-> FALSE, key |-> "", msg |-> material]

signatureUnchecked(secret, material, signature) == TRUE

\* expectedSignature !== razorpay_signature  =>  reject
signatureMatches(secret, material, signature) ==
    createHmac(secret, material) = signature

\* res.status(code).json({ status, message }); ref is the order id or the
\* position of the item the message is about
RespondRef(op, code, sig, msg, ref) ==
    [op |-> op, code |-> code, sig |-> sig, msg |-> msg, ref |-> ref]

Respond(op, code, sig, msg) == RespondRef(op, code, sig, msg, 0)

\* ---------------------------------------------- payment intent broker
VariantProduct == [v \in Variants |-> "P1"]

\* the per-item checks of the validation loop; "ok" or the rejection
validateItem(prc, item) ==
    IF item.variantId # NoVariant
    THEN IF item.variantId \notin Variants \/ VariantProduct[item.variantId] # item.productId
         THEN "Invalid product variant"
         ELSE IF prc[item.variantId] # item.price THEN "Price mismatch" ELSE "ok"
    ELSE IF item.productId \notin Products
         THEN "Product not found"
         ELSE IF prc[item.productId] # item.price THEN "Price mismatch" ELSE "ok"

RECURSIVE validateItems(_, _)
validateItems(prc, items) ==
    IF items = <<>> THEN "ok"
    ELSE IF validateItem(prc, Head(items)) # "ok" THEN validateItem(prc, Head(items))
    ELSE validateItems(prc, Tail(items))

\* calculatedSubtotal += item.price * item.quantity
RECURSIVE calculatedSubtotal(_)
calculatedSubtotal(items) ==
    IF items = <<>> THEN 0
    ELSE Head(items).price * Head(items).quantity + calculatedSubtotal(Tail(items))

Abs(x) == IF x < 0 THEN 0 - x ELSE x

subtotalUnchecked(calc, declared) == TRUE

\* Math.abs(calculatedSubtotal - cartData.subtotal) > 0.01  =>  reject
subtotalAccepted(calc, declared) == ~(Abs(calc - declared) > Epsilon)

createRazorpayOrderFromCart(user, cartData) ==
    LET op == "createRazorpayOrderFromCart"
        v == validateItems(price, cartData.items) IN
    /\ IF v # "ok"
       THEN /\ resp' = Respond(op, 400, "none", v)
            /\ UNCHANGED <<tempOrder, minted>>
       ELSE IF ~subtotalAccepted(calculatedSubtotal(cartData.items), cartData.subtotal)
       THEN /\ resp' = Respond(op, 400, "none", "Subtotal calculation mismatch")
            /\ UNCHANGED <<tempOrder, minted>>
       ELSE /\ minted < MaxIntents
            /\ minted' = minted + 1
            /\ IF cache.up
               THEN /\ tempOrder' = [tempOrder EXCEPT ![minted + 1] =
                                       [cartData |-> cartData, userId |-> user]]
                    /\ resp' = Respond(op, 200, "none", "success")
               ELSE /\ tempOrder' = tempOrder
                    /\ resp' = Respond(op, 500, "none", "Failed to create payment order")
    /\ UNCHANGED <<stock, price, rs, orders, usageCount, cart, req, cache>>

\* the redis TTL (setex 3600) runs out
expireTempOrder(i) ==
    /\ tempOrder[i] # NoIntent
    /\ tempOrder' = [tempOrder EXCEPT ![i] = NoIntent]
    /\ resp' = NoResp
    /\ UNCHANGED <<stock, price, rs, orders, usageCount, cart, minted, req, cache>>

\* ------------------------------------------- order commit transaction
ValidCoupons == {"SAVE"}
FailPoints == {"none", "order", "items", "history", "cart", "coupon"}

\* prisma.coupon.findFirst({ where: { code, isActive, validFrom, validUntil } })
couponFindFirst(code) == IF code \in ValidCoupons THEN code ELSE NoCoupon

\* tx.cartItem.deleteMany + tx.cart.updateMany({ subtotal: 0, total: 0 })
clearCartKept(crt, user) == crt

clearCart(crt, user) == [crt EXCEPT ![user] = IF @ = "none" THEN "none" ELSE "empty"]

\* prisma.$transaction: the callback's writes are kept when it returns
\* and discarded when it throws.
transactionKeepsPartial(pre, out) == out.db

transactionSparesStock(pre, out) ==
    IF out.ok THEN out.db ELSE [pre EXCEPT !.stock = out.db.stock]

transaction(pre, out) == IF out.ok THEN out.db ELSE pre

\* cartData.paymentMethod of a confirmation: the client's label for a
\* payment made through the gateway
GatewayMethod == "RAZORPAY"

\* generateOrderNumber(): "KGR", the last 8 digits of Date.now() and a
\* 3-digit Math.random() draw
generateOrderNumber(now, random) == <<"KGR", now, random>>

\* new ObjectId().toHexString(): differs on every call
ObjectId(n) == <<"oid", n>>

\* the unique index on Order.orderNumber: order.create with a number that
\* an existing row carries throws (P2002)
orderNumberTaken(ords, orderNumber) ==
    \E k \in 1..Len(ords) : ords[k].orderNumber = orderNumber

\* the callback of prisma.$transaction in verifyPaymentAndCreateOrder;
\* failAt is the data-store call that throws, if any.  db is the working
\* copy at the point where the callback returns or throws.
verifyCallback(db, r, failAt, orderNumber) ==
    LET reservation == reserveStock(db.stock, price, r.body.items)
        db1 == [db EXCEPT !.stock = reservation.stock]
        order == [orderNumber |-> orderNumber,
                  paymentMethod |-> GatewayMethod,
                  userId |-> r.user, status |-> "CONFIRMED", paymentStatus |-> "PAID",
                  paymentId |-> r.intent,
                  subtotal |-> r.temp.cartData.subtotal,
                  discountAmount |-> r.temp.cartData.discount,
                  totalAmount |-> r.temp.cartData.total,
                  couponId |-> r.couponId,
                  items |-> <<>>, statusHistory |-> <<>>]
        id == Len(db.orders) + 1
        db2 == [db1 EXCEPT !.orders = Append(@, order)]
        db3 == [db2 EXCEPT !.orders[id].items = reservation.reservedItems]
        db4 == [db3 EXCEPT !.orders[id].statusHistory = <<"CONFIRMED">>]
        db5 == [db4 EXCEPT !.cart = clearCart(@, r.user)]
        db6 == IF r.couponId # NoCoupon
               THEN [db5 EXCEPT !.usageCount = @ + 1] ELSE db5
    IN IF ~reservation.success
       THEN [ok |-> FALSE, message |-> reservation.message, at |-> reservation.at, db |-> db1]
       ELSE CASE failAt = "order" \/ orderNumberTaken(db.orders, orderNumber) ->
                                      [ok |-> FALSE, message |-> "order", at |-> 0, db |-> db1]
              [] failAt = "items" -> [ok |-> FALSE, message |-> failAt, at |-> 0, db |-> db2]
              [] failAt = "history" -> [ok |-> FALSE, message |-> failAt, at |-> 0, db |-> db3]
              [] failAt = "cart" -> [ok |-> FALSE, message |-> failAt, at |-> 0, db |-> db4]
              [] failAt = "coupon" /\ r.couponId # NoCoupon ->
                                      [ok |-> FALSE, message |-> failAt, at |-> 0, db |-> db5]
              [] OTHER -> [ok |-> TRUE, message |-> "none", at |-> 0, db |-> db6]

DB == [stock |-> stock, orders |-> orders, usageCount |-> usageCount, cart |-> cart]

SetDB(db) ==
    /\ stock' = db.stock
    /\ orders' = db.orders
    /\ usageCount' = db.usageCount
    /\ cart' = db.cart

\* redis.get("temp_order:" + razorpay_order_id): the stored record, or
\* nothing once it expired or was deleted
redisGetCached(store, intent) ==
    IF store[intent] = NoIntent
    THEN [cartData |-> [items |-> <<>>, subtotal |-> 0, discount |-> 0, total |-> 0,
                        couponCode |-> NoCoupon],
          userId |-> "u1"]
    ELSE store[intent]

redisGet(store, intent) == store[intent]

userMatchesUnchecked(temp, user) == TRUE

\* tempOrderData.userId !== userId  =>  reject
userMatches(temp, user) == temp.userId = user

\* verifyPaymentAndCreateOrder up to the transaction: signature check,
\* razorpay.payments.fetch, redis.get of the intent record, user check
\* and coupon lookup.  Only redis.get reads state that other requests
\* write, so the prefix is one step.
verifyPaymentAndCreateOrder(p, user, intent, kind, body, paymentStatus) ==
    LET op == "verifyPaymentAndCreateOrder"
        material == <<intent, intent>>
        signature == presented(kind, KeySecret, material)
        temp == redisGet(tempOrder, intent)
        lookup == body.couponCode # NoCoupon /\ temp.cartData.couponCode # NoCoupon IN
    /\ req[p].op = "idle"
    /\ IF ~signatureMatches(KeySecret, material, signature)
       THEN /\ resp' = Respond(op, 400, kind, "Invalid payment signature")
            /\ req' = req
       ELSE IF paymentStatus # "captured"
       THEN /\ resp' = Respond(op, 400, kind, "Payment not captured")
            /\ req' = req
       ELSE IF ~cache.up
       THEN /\ resp' = Respond(op, 500, kind, "Failed to verify payment and create order")
            /\ req' = req
       ELSE IF temp = NoIntent
       THEN /\ resp' = Respond(op, 400, kind, "Order session expired or not found")
            /\ req' = req
       ELSE IF ~userMatches(temp, user)
       THEN /\ resp' = Respond(op, 400, kind, "User mismatch")
            /\ req' = req
       ELSE IF lookup /\ couponFindFirst(body.couponCode) = NoCoupon
       THEN /\ resp' = Respond(op, 400, kind, "Invalid or expired coupon")
            /\ req' = req
       ELSE /\ resp' = NoResp
            /\ req' = [req EXCEPT ![p] =
                  [op |-> "verify", pc |-> "transaction", user |-> user,
                   intent |-> intent, sig |-> kind, body |-> body, temp |-> temp,
                   couponId |-> IF lookup THEN couponFindFirst(body.couponCode)
                                ELSE NoCoupon]]
    /\ UNCHANGED <<stock, price, rs, orders, usageCount, cart, tempOrder, minted, cache>>

\* prisma.$transaction(...) and the catch block of the handler
verifyTransaction(p, failAt, now, random) ==
    LET op == "verifyPaymentAndCreateOrder"
        r == req[p]
        out == verifyCallback(DB, r, failAt, generateOrderNumber(now, random)) IN
    /\ r.op = "verify" /\ r.pc = "transaction"
    /\ Len(orders) < MaxOrders
    /\ SetDB(transaction(DB, out))
    /\ IF out.ok
       THEN /\ resp' = NoResp
            /\ req' = [req EXCEPT ![p] = [op |-> "verify", pc |-> "redisDel",
                                          intent |-> r.intent, sig |-> r.sig,
                                          orderId |-> Len(out.db.orders)]]
       ELSE /\ resp' = IF out.message \in {"not found", "Stock reservation failed"}
                       THEN RespondRef(op, 400, r.sig, out.message, out.at)
                       ELSE Respond(op, 500, r.sig, "Failed to verify payment and create order")
            /\ req' = [req EXCEPT ![p] = IdleReq]
    /\ UNCHANGED <<price, rs, tempOrder, minted, cache>>

\* redis.del of the intent record and the success response
verifyRedisDel(p) ==
    LET r == req[p] IN
    /\ r.op = "verify" /\ r.pc = "redisDel"
    /\ IF cache.up
       THEN /\ tempOrder' = [tempOrder EXCEPT ![r.intent] = NoIntent]
            /\ resp' = Respond("verifyPaymentAndCreateOrder", 200, r.sig, "success")
       ELSE /\ tempOrder' = tempOrder
            /\ resp' = Respond("verifyPaymentAndCreateOrder", 500, r.sig,
                               "Failed to verify payment and create order")
    /\ req' = [req EXCEPT ![p] = IdleReq]
    /\ UNCHANGED <<stock, price, rs, orders, usageCount, cart, minted, cache>>

\* ------------------------------------------------------------ catalogue
\* updateProduct / updateProductVariant with a new price
updateProduct(u, newPrice) ==
    /\ newPrice # price[u]
    /\ u \in Products => newPrice # NoPrice
    /\ price' = [price EXCEPT ![u] = newPrice]
    /\ resp' = NoResp
    /\ UNCHANGED <<stock, rs, orders, usageCount, cart, tempOrder, minted, req, cache>>

\* -------------------------------------------------- cache.service
\* getCache: redis.get and JSON.parse; an error is logged and read as null
\* (by getCache itself, and once more by cacheWrapper)
getCacheStale(c, key) == c.keys[key]

getCache(c, key) == IF c.up THEN c.keys[key] ELSE Miss

\* setCache: redis.set(key, JSON.stringify(data), "EX", duration); an error
\* is logged and swallowed
setCache(c, key, data) == IF c.up THEN [c EXCEPT !.keys[key] = data] ELSE c

\* deleteCache / deleteCachePattern: redis.keys and redis.del, uncaught
deleteCachePattern(c, key) ==
    IF c.up THEN [threw |-> FALSE, cache |-> [c EXCEPT !.keys[key] = Miss]]
    ELSE [threw |-> TRUE, cache |-> c]

\* the key's EX duration runs out
cacheExpire(key) ==
    /\ cache.keys[key] # Miss
    /\ cache' = [cache EXCEPT !.keys[key] = Miss]
    /\ resp' = NoResp
    /\ UNCHANGED <<stock, price, rs, orders, usageCount, cart, tempOrder, minted, req>>

\* redis stops answering / answers again
redisDown ==
    /\ cache.up
    /\ cache' = [cache EXCEPT !.up = FALSE]
    /\ resp' = NoResp
    /\ UNCHANGED <<stock, price, rs, orders, usageCount, cart, tempOrder, minted, req>>

redisUp ==
    /\ ~cache.up
    /\ cache' = [cache EXCEPT !.up = TRUE]
    /\ resp' = NoResp
    /\ UNCHANGED <<stock, price, rs, orders, usageCount, cart, tempOrder, minted, req>>

\* the function listOrders hands to cacheWrapper: order.findMany and
\* order.count for the user
findMany(ords, user) ==
    [total |-> Cardinality({k \in 1..Len(ords) : ords[k].userId = user})]

\* listOrders up to cacheWrapper's await fn(): a cached value is returned
\* as it is
listOrders(p, user) ==
    LET cached == getCache(cache, user) IN
    /\ req[p].op = "idle"
    /\ IF cached # Miss
       THEN /\ resp' = RespondRef("listOrders", 200, "none", "cached", cached.total)
            /\ req' = req
       ELSE /\ resp' = NoResp
            /\ req' = [req EXCEPT ![p] = [op |-> "listOrders", pc |-> "fn", user |-> user]]
    /\ UNCHANGED <<stock, price, rs, orders, usageCount, cart, tempOrder, minted, cache>>

\* await fn(): the data-store reads; when they throw, listOrders' catch
\* block answers 500
listOrdersFn(p, failAt) ==
    LET r == req[p] IN
    /\ r.op = "listOrders" /\ r.pc = "fn"
    /\ IF failAt = "db"
       THEN /\ resp' = Respond("listOrders", 500, "none", "Failed to fetch orders")
            /\ req' = [req EXCEPT ![p] = IdleReq]
       ELSE /\ resp' = NoResp
            /\ req' = [req EXCEPT ![p] = [op |-> "listOrders", pc |-> "setCache",
                                          user |-> r.user, data |-> findMany(orders, r.user)]]
    /\ UNCHANGED <<stock, price, rs, orders, usageCount, cart, tempOrder, minted, cache>>

\* cacheWrapper's setCache and return, and the response of listOrders
listOrdersRespond(p) ==
    LET r == req[p] IN
    /\ r.op = "listOrders" /\ r.pc = "setCache"
    /\ cache' = setCache(cache, r.user, r.data)
    /\ resp' = RespondRef("listOrders", 200, "none", "success", r.data.total)
    /\ req' = [req EXCEPT ![p] = IdleReq]
    /\ UNCHANGED <<stock, price, rs, orders, usageCount, cart, tempOrder, minted>>

\* ------------------------------------------------ order.controller
CouponValue == 1
UsageLimit == 1
OrderStatuses == {"PENDING", "CONFIRMED", "PROCESSING", "SHIPPED", "OUT_FOR_DELIVERY",
                  "DELIVERED", "CANCELLED", "RETURNED", "REFUNDED"}
PaymentStatuses == {"PENDING", "PAID", "FAILED", "REFUNDED", "PARTIAL_REFUND"}

\* price = variant?.price ?? product.price
itemPrice(prc, item) ==
    IF item.variantId # NoVariant /\ prc[item.variantId] # NoPrice
    THEN prc[item.variantId] ELSE prc[item.productId]

\* the "Process each item" loop of createOrder on the transaction's
\* working copy; a rejection returns from the callback where it stands.
RECURSIVE processItems(_, _, _, _, _)
processItems(stk, prc, items, orderItems, subtotal) ==
    IF items = <<>>
    THEN [outcome |-> "ok", stock |-> stk, orderItems |-> orderItems, subtotal |-> subtotal]
    ELSE LET item == Head(items)
             u == UnitOf(item) IN
         IF item.productId \notin Products
         THEN [outcome |-> "Product not found", stock |-> stk,
               orderItems |-> orderItems, subtotal |-> subtotal]
         ELSE IF stk[u] < item.quantity
         THEN [outcome |-> "Insufficient stock", stock |-> stk,
               orderItems |-> orderItems, subtotal |-> subtotal]
         ELSE processItems([stk EXCEPT ![u] = stk[u] - item.quantity], prc, Tail(items),
                           Append(orderItems, [productId |-> item.productId,
                                               variantId |-> item.variantId,
                                               quantity |-> item.quantity,
                                               price |-> itemPrice(prc, item)]),
                           subtotal + itemPrice(prc, item) * item.quantity)

\* String.prototype.toUpperCase on the payment-method labels in use
toUpperCase(str) ==
    CASE str = "cod" -> "COD"
      [] str = "Cash_On_Delivery" -> "CASH_ON_DELIVERY"
      [] str = "card" -> "CARD"
      [] OTHER -> str

isCODNever(paymentMethod) == FALSE

isCOD(paymentMethod) == toUpperCase(paymentMethod) \in {"COD", "CASH_ON_DELIVERY"}

\* the callback of prisma.$transaction in createOrder: it returns (and so
\* commits) on every rejection, and throws only when a write fails.
createOrderCallback(db, user, paymentMethod, items, couponCode, failAt) ==
    LET coupon == couponFindFirst(couponCode)
        loop == processItems(db.stock, price, items, <<>>, 0)
        db1 == [db EXCEPT !.stock = loop.stock]
        discountAmount == IF coupon # NoCoupon THEN CouponValue ELSE 0
        orderStatus == IF isCOD(paymentMethod) THEN "CONFIRMED" ELSE "PENDING"
        order == [orderNumber |-> ObjectId(Len(db.orders) + 1),
                  paymentMethod |-> paymentMethod,
                  userId |-> user, status |-> orderStatus, paymentStatus |-> "PENDING",
                  paymentId |-> 0,
                  subtotal |-> loop.subtotal,
                  discountAmount |-> discountAmount,
                  totalAmount |-> loop.subtotal - discountAmount,
                  couponId |-> coupon,
                  items |-> loop.orderItems, statusHistory |-> <<orderStatus>>]
        db2 == [db1 EXCEPT !.orders = Append(@, order)]
        db3 == IF coupon # NoCoupon THEN [db2 EXCEPT !.usageCount = @ + 1] ELSE db2
        db4 == [db3 EXCEPT !.cart[user] = "none"]
    IN IF couponCode # NoCoupon /\ coupon = NoCoupon
       THEN [ok |-> TRUE, code |-> 400, message |-> "Invalid coupon code", db |-> db]
       ELSE IF loop.outcome = "Product not found"
       THEN [ok |-> TRUE, code |-> 404, message |-> loop.outcome, db |-> db1]
       ELSE IF loop.outcome = "Insufficient stock"
       THEN [ok |-> TRUE, code |-> 400, message |-> loop.outcome, db |-> db1]
       ELSE CASE failAt = "order" -> [ok |-> FALSE, code |-> 500, message |-> "db", db |-> db1]
              [] failAt = "coupon" /\ coupon # NoCoupon ->
                                     [ok |-> FALSE, code |-> 500, message |-> "db", db |-> db2]
              [] OTHER -> [ok |-> TRUE, code |-> 201, message |-> "success", db |-> db4]

createOrder(user, paymentMethod, items, couponCode, failAt) ==
    LET out == createOrderCallback(DB, user, paymentMethod, items, couponCode, failAt) IN
    /\ Len(orders) < MaxOrders
    /\ SetDB(transaction(DB, out))
    /\ resp' = Respond("createOrder", out.code, "none", out.message)
    /\ UNCHANGED <<price, rs, tempOrder, minted, req, cache>>

\* createOrder under concurrency.  The callback's first data-store call
\* (coupon.findFirst or product.findUnique on the transaction client) fixes
\* the snapshot the MongoDB transaction reads from.
createOrderBegin(p, user, paymentMethod, items, couponCode) ==
    /\ req[p].op = "idle"
    /\ req' = [req EXCEPT ![p] =
                  [op |-> "create", pc |-> "commit", user |-> user,
                   paymentMethod |-> paymentMethod, items |-> items,
                   couponCode |-> couponCode,
                   snap |-> [stock |-> stock, usageCount |-> usageCount]]]
    /\ resp' = NoResp
    /\ UNCHANGED <<stock, price, rs, orders, usageCount, cart, tempOrder, minted, cache>>

\* a write of the transaction to a document that another writer changed
\* after the snapshot was taken is refused (write conflict, P2034); the
\* documents are compared by value
writeConflictIgnored(snap, post, committed) == FALSE

writeConflict(snap, post, committed) ==
    \/ \E u \in Units : post.stock[u] # snap.stock[u] /\ committed.stock[u] # snap.stock[u]
    \/ post.usageCount # snap.usageCount /\ committed.usageCount # snap.usageCount

\* the rest of the callback and the commit: the documents the transaction
\* wrote replace the committed ones, the others stay as they are
createOrderCommit(p, failAt) ==
    LET r == req[p]
        pre == [DB EXCEPT !.stock = r.snap.stock, !.usageCount = r.snap.usageCount]
        out == createOrderCallback(pre, r.user, r.paymentMethod, r.items, r.couponCode, failAt)
        post == transaction(pre, out)
        conflict == writeConflict(r.snap, post, DB) IN
    /\ r.op = "create" /\ r.pc = "commit"
    /\ Len(orders) < MaxOrders
    /\ IF conflict
       THEN /\ UNCHANGED dbvars
            /\ resp' = Respond("createOrder", 500, "none", "write conflict")
       ELSE /\ stock' = [u \in Units |-> IF post.stock[u] # r.snap.stock[u]
                                         THEN post.stock[u] ELSE stock[u]]
            /\ usageCount' = IF post.usageCount # r.snap.usageCount
                             THEN post.usageCount ELSE usageCount
            /\ orders' = post.orders
            /\ cart' = post.cart
            /\ resp' = RespondRef("createOrder", out.code, "none", out.message,
                                  IF out.code = 201 THEN Len(post.orders) ELSE 0)
    /\ req' = [req EXCEPT ![p] = IdleReq]
    /\ UNCHANGED <<price, rs, tempOrder, minted, cache>>

\* the increments of cancelOrder's batch (and restoreStock): the variant's
\* counter when the line item has a variant, the product's otherwise
RECURSIVE restoreStockProductsOnly(_, _)
restoreStockProductsOnly(stk, items) ==
    IF items = <<>> THEN stk
    ELSE restoreStockProductsOnly(
             IF Head(items).variantId # NoVariant THEN stk
             ELSE [stk EXCEPT ![Head(items).productId] = @ + Head(items).quantity],
             Tail(items))

RECURSIVE restoreStock(_, _)
restoreStock(stk, items) ==
    IF items = <<>> THEN stk
    ELSE restoreStock([stk EXCEPT ![UnitOf(Head(items))] = @ + Head(items).quantity],
                      Tail(items))

appendHistory(order, status) ==
    [order EXCEPT !.statusHistory = Append(@, status)]

\* cancelOrder: prisma.order.findFirst({ id, userId, status in [PENDING, CONFIRMED] })
cancelOrder(p, user, id) ==
    /\ req[p].op = "idle"
    /\ IF id \in 1..Len(orders) /\ orders[id].userId = user
          /\ orders[id].status \in {"PENDING", "CONFIRMED"}
       THEN /\ req' = [req EXCEPT ![p] = [op |-> "cancel", pc |-> "transaction", user |-> user,
                                          id |-> id, items |-> orders[id].items,
                                          couponId |-> orders[id].couponId]]
            /\ resp' = NoResp
       ELSE /\ req' = req
            /\ resp' = Respond("cancelOrder", 404, "none", "Order not found or cannot be cancelled")
    /\ UNCHANGED <<stock, price, rs, orders, usageCount, cart, tempOrder, minted, cache>>

\* the writes of cancelOrder's batch, in order; failAt is the one that
\* throws, if any
cancelBatch(db, r, failAt) ==
    LET db1 == [db EXCEPT !.orders[r.id] =
                    appendHistory([@ EXCEPT !.status = "CANCELLED"], "CANCELLED")]
        db2 == [db1 EXCEPT !.stock = restoreStock(@, r.items)]
        db3 == IF r.couponId # NoCoupon THEN [db2 EXCEPT !.usageCount = @ - 1] ELSE db2
    IN CASE failAt = "stock" -> [ok |-> FALSE, db |-> db1]
         [] failAt = "coupon" /\ r.couponId # NoCoupon -> [ok |-> FALSE, db |-> db2]
         [] OTHER -> [ok |-> TRUE, db |-> db3]

\* cancelOrder: the batch prisma.$transaction([...]), the invalidation of
\* the user's cached order lists and the catch block
cancelTransaction(p, failAt) ==
    LET r == req[p]
        out == cancelBatch(DB, r, failAt)
        del == deleteCachePattern(cache, r.user) IN
    /\ r.op = "cancel" /\ r.pc = "transaction"
    /\ Len(orders[r.id].statusHistory) < MaxHistory
    /\ SetDB(transaction(DB, out))
    /\ req' = [req EXCEPT ![p] = IdleReq]
    /\ cache' = IF out.ok THEN del.cache ELSE cache
    /\ resp' = IF out.ok /\ ~del.threw
               THEN RespondRef("cancelOrder", 200, "none", "success", r.id)
               ELSE RespondRef("cancelOrder", 500, "none", "Failed to cancel order", r.id)
    /\ UNCHANGED <<price, rs, tempOrder, minted>>

\* admin: updateOrderStatus
updateOrderStatus(id, status) ==
    /\ IF id \in 1..Len(orders)
       THEN LET del == deleteCachePattern(cache, orders[id].userId) IN
            /\ Len(orders[id].statusHistory) < MaxHistory
            /\ orders' = [orders EXCEPT ![id] = appendHistory([@ EXCEPT !.status = status], status)]
            /\ cache' = del.cache
            /\ resp' = IF del.threw
                       THEN Respond("updateOrderStatus", 500, "none",
                                    "Failed to update order status")
                       ELSE Respond("updateOrderStatus", 200, "none", "success")
       ELSE /\ orders' = orders
            /\ cache' = cache
            /\ resp' = Respond("updateOrderStatus", 404, "none", "Order not found")
    /\ UNCHANGED <<stock, price, rs, usageCount, cart, tempOrder, minted, req>>

\* admin: updatePaymentStatus
updatePaymentStatus(id, paymentStatus) ==
    /\ IF id \in 1..Len(orders)
       THEN /\ Len(orders[id].statusHistory) < MaxHistory
            /\ orders' = [orders EXCEPT ![id] =
                            appendHistory([@ EXCEPT !.paymentStatus = paymentStatus], @.status)]
            /\ resp' = Respond("updatePaymentStatus", 200, "none", "success")
       ELSE /\ orders' = orders
            /\ resp' = Respond("updatePaymentStatus", 404, "none", "Order not found")
    /\ UNCHANGED <<stock, price, rs, usageCount, cart, tempOrder, minted, req, cache>>

\* ------------------------------------------------- webhook reconciler
Events == {"payment.captured", "payment.failed", "refund.processed"}

\* the data of the handlers' order updates: status, paymentStatus,
\* paymentId (left alone when KeepPayment) and one status-history row
KeepPayment == 0 - 1

settle(order, status, paymentStatus, paymentId) ==
    appendHistory([order EXCEPT !.status = status, !.paymentStatus = paymentStatus,
                                !.paymentId = IF paymentId = KeepPayment THEN @ ELSE paymentId],
                  status)

\* prisma.order.update({ where: { id }, data }): the row with that id is
\* changed; when there is none the call throws (P2025) and nothing is written
orderUpsert(ords, id, status, paymentStatus, paymentId) ==
    IF id \in 1..Len(ords)
    THEN [found |-> TRUE, orders |-> [ords EXCEPT ![id] = settle(@, status, paymentStatus, paymentId)]]
    ELSE [found |-> TRUE,
          orders |-> Append(ords, [orderNumber |-> ObjectId(Len(ords) + 1),
                                   paymentMethod |-> GatewayMethod,
                                   userId |-> "none", status |-> status,
                                   paymentStatus |-> paymentStatus, paymentId |-> paymentId,
                                   subtotal |-> 0, discountAmount |-> 0, totalAmount |-> 0,
                                   couponId |-> NoCoupon, items |-> <<>>,
                                   statusHistory |-> <<status>>])]

orderUpdate(ords, id, status, paymentStatus, paymentId) ==
    IF id \in 1..Len(ords)
    THEN [found |-> TRUE, orders |-> [ords EXCEPT ![id] = settle(@, status, paymentStatus, paymentId)]]
    ELSE [found |-> FALSE, orders |-> ords]

handlePaymentCaptured(ords, id, paymentId) ==
    orderUpdate(ords, id, "CONFIRMED", "PAID", paymentId)

handlePaymentFailed(ords, id, paymentId) ==
    orderUpdate(ords, id, "CANCELLED", "FAILED", paymentId)

handleRefundProcessed(ords, id) ==
    orderUpdate(ords, id, "REFUNDED", "REFUNDED", KeepPayment)

LegacyPayment == 9

\* handleWebhook: id is notes.orderId of the event's entity (NoOrder when
\* the entity carries none); a throwing handler lands in the catch block
handleWebhook(kind, event, id) ==
    LET op == "handleWebhook"
        body == <<event, id>>
        signature == presented(kind, WebhookSecret, body)
        upd == CASE event = "payment.captured" -> handlePaymentCaptured(orders, id, LegacyPayment)
                 [] event = "payment.failed" -> handlePaymentFailed(orders, id, LegacyPayment)
                 [] OTHER -> handleRefundProcessed(orders, id) IN
    /\ IF ~signature.present
       THEN /\ resp' = Respond(op, 400, kind, "Missing webhook secret or signature")
            /\ orders' = orders
       ELSE IF ~signatureMatches(WebhookSecret, body, signature)
       THEN /\ resp' = Respond(op, 400, kind, "Invalid webhook signature")
            /\ orders' = orders
       ELSE IF id = NoOrder
       THEN /\ resp' = Respond(op, 200, kind, event)
            /\ orders' = orders
       ELSE IF ~upd.found
       THEN /\ resp' = RespondRef(op, 500, kind, "Failed to process webhook", id)
            /\ orders' = orders
       ELSE /\ id \in 1..Len(orders) => Len(orders[id].statusHistory) < MaxHistory
            /\ resp' = RespondRef(op, 200, kind, event, id)
            /\ orders' = upd.orders
    /\ UNCHANGED <<stock, price, rs, usageCount, cart, tempOrder, minted, req, cache>>

\* verifyPayment (legacy flow): id is payment.notes.orderId
verifyPayment(kind, id) ==
    LET op == "verifyPayment"
        material == <<0, LegacyPayment>>
        signature == presented(kind, KeySecret, material)
        upd == orderUpdate(orders, id, "CONFIRMED", "PAID", LegacyPayment) IN
    /\ IF ~signatureMatches(KeySecret, material, signature)
       THEN /\ resp' = Respond(op, 400, kind, "Invalid payment signature")
            /\ orders' = orders
       ELSE IF id = NoOrder
       THEN /\ resp' = Respond(op, 400, kind, "Order ID not found in payment")
            /\ orders' = orders
       ELSE IF ~upd.found
       THEN /\ resp' = Respond(op, 500, kind, "Failed to verify payment")
            /\ orders' = orders
       ELSE /\ id \in 1..Len(orders) => Len(orders[id].statusHistory) < MaxHistory
            /\ resp' = RespondRef(op, 200, kind, "success", id)
            /\ orders' = upd.orders
    /\ UNCHANGED <<stock, price, rs, usageCount, cart, tempOrder, minted, req, cache>>

Init ==
    /\ stock = [u \in Units |-> InitStock]
    /\ price = [u \in Units |-> IF u \in Products THEN 10 ELSE 13]
    /\ rs = [c \in Calls |-> IdleCall]
    /\ orders = <<>>
    /\ usageCount = 0
    /\ cart = [u \in Users |-> "filled"]
    /\ tempOrder = [i \in Intents |-> NoIntent]
    /\ minted = 0
    /\ req = [p \in Procs |-> IdleReq]
    /\ resp = NoResp
    /\ cache = [up |-> TRUE, keys |-> [u \in Users |-> Miss]]

\* ------------------------------------------------------ specifications
\* request inputs
Item(p, v, q) == [productId |-> p, variantId |-> v, quantity |-> q]
Small == <<Item("P1", NoVariant, 1)>>
Pair == <<Item("P1", "V1", 1), Item("P1", NoVariant, InitStock)>>
TooBig == <<Item("P1", "V1", 1), Item("P1", NoVariant, InitStock + 1)>>
Missing == <<Item("P1", NoVariant, 1), Item("PX", NoVariant, 1)>>

\* a cart snapshot as a client builds it: the items priced from the
\* catalogue, the price of item tamper (if any) changed, the subtotal
\* off by d
Snapshot(l, tamper, d, c) ==
    LET items == [k \in 1..Len(l) |->
                    [productId |-> l[k].productId, variantId |-> l[k].variantId,
                     quantity |-> l[k].quantity,
                     price |-> itemPrice(price, l[k]) + (IF k = tamper THEN 3 ELSE 0)]]
    IN [items |-> items, subtotal |-> calculatedSubtotal(items) + d, discount |-> 0,
        total |-> calculatedSubtotal(items) + d, couponCode |-> c]

Snapshots ==
    {Snapshot(l, 0, 0, c) : l \in {Small, Pair}, c \in {NoCoupon, "SAVE"}}
    \cup {Snapshot(Pair, t, 0, NoCoupon) : t \in 1..MaxItems}
    \cup {Snapshot(Small, 0, d, NoCoupon) : d \in {Epsilon + 1, 0 - (Epsilon + 1)}}

\* a clock reading later than that of every order created so far
Tick == Len(orders) + 1

\* the order the admin, the gateway and the cancelling customer address
Targets == {1}
MaxLegacy == 1
AdminStatuses == {"SHIPPED", "CANCELLED"}
AdminPaymentStatuses == {"PAID", "FAILED"}

Bodies ==
    {[items |-> l, couponCode |-> NoCoupon] : l \in {Small, Pair, TooBig, Missing}}
    \cup {[items |-> Small, couponCode |-> "SAVE"]}

\* the commit pipeline, one confirmation at a time, while prices move
NextCommit ==
    \/ \E u \in Buyers, cd \in Snapshots : createRazorpayOrderFromCart(u, cd) /\ minted' <= MaxSessions
    \/ \E i \in Intents : expireTempOrder(i)
    \/ \E u \in Users, i \in Intents, b \in Bodies :
          verifyPaymentAndCreateOrder(1, u, i, "valid", b, "captured")
    \/ \E i \in Intents :
          verifyPaymentAndCreateOrder(1, "u1", i, "valid",
                                      [items |-> Small, couponCode |-> NoCoupon], "failed")
    \/ \E f \in FailPoints : verifyTransaction(1, f, Tick, 0)
    \/ verifyRedisDel(1)
    \/ \E np \in Prices : updateProduct("P1", np)

SpecCommit == Init /\ [][NextCommit]_vars

\* the life of an intent record: created, expired, confirmed by its owner
\* or by somebody else
NextIntent ==
    \/ \E l \in {Small, Pair}, c \in {NoCoupon, "SAVE"} :
          createRazorpayOrderFromCart("u1", Snapshot(l, 0, 0, c)) /\ minted' <= MaxSessions
    \/ \E i \in Intents : expireTempOrder(i)
    \/ \E u \in Users, i \in Intents, l \in {Small, Pair}, c \in {NoCoupon, "SAVE"} :
          verifyPaymentAndCreateOrder(1, u, i, "valid", [items |-> l, couponCode |-> c],
                                      "captured")
    \/ \E f \in {"none", "order"} : verifyTransaction(1, f, Tick, 0)
    \/ verifyRedisDel(1)
    \/ \E np \in Prices : updateProduct("P1", np)

SpecIntent == Init /\ [][NextIntent]_vars

\* concurrent confirmations of the single-item cart
NextRace ==
    \/ \E c \in {NoCoupon, "SAVE"} : createRazorpayOrderFromCart("u1", Snapshot(Small, 0, 0, c)) /\ minted' <= MaxSessions
    \/ \E i \in Intents : expireTempOrder(i)
    \/ \E p \in Procs, i \in Intents, c \in {NoCoupon, "SAVE"} :
          verifyPaymentAndCreateOrder(p, "u1", i, "valid",
                                      [items |-> Small, couponCode |-> c], "captured")
    \/ \E p \in Procs, f \in {"none", "order"} : verifyTransaction(p, f, Tick, 0)
    \/ \E p \in Procs : verifyRedisDel(p)

SpecRace == Init /\ [][NextRace]_vars

\* the handlers that work on existing orders, and createOrder
OrderSteps(PS, Lists, Sts, Pss) ==
    \/ \E u \in Buyers, pm \in {"COD", "CARD"}, l \in Lists,
          c \in {NoCoupon, "SAVE", "BAD"}, f \in {"none", "order", "coupon"} :
            Len(orders) < MaxLegacy /\ createOrder(u, pm, l, c, f)
    \/ \E p \in PS, u \in Users, id \in Targets : cancelOrder(p, u, id)
    \/ \E p \in PS, f \in {"none", "stock"} : cancelTransaction(p, f)
    \/ \E id \in Targets, st \in Sts : updateOrderStatus(id, st)
    \/ \E id \in Targets, ps \in Pss : updatePaymentStatus(id, ps)
    \/ \E e \in Events, id \in Targets \cup {NoOrder} : handleWebhook("valid", e, id)
    \/ \E k \in SigKinds, e \in Events : handleWebhook(k, e, 1)
    \/ \E id \in Targets \cup {NoOrder} : verifyPayment("valid", id)
    \/ \E k \in SigKinds : verifyPayment(k, 1)

NextOrders == OrderSteps(Procs, {Small, Pair, Missing}, AdminStatuses, AdminPaymentStatuses)

SpecOrders == Init /\ [][NextOrders]_vars

\* every handler together, one request at a time, on the single-item cart
Next ==
    \/ \E c \in {NoCoupon, "SAVE"} : createRazorpayOrderFromCart("u1", Snapshot(Small, 0, 0, c)) /\ minted' <= MaxSessions
    \/ createRazorpayOrderFromCart("u1", Snapshot(Small, 1, 0, NoCoupon)) /\ minted' <= MaxSessions
    \/ \E i \in Intents : expireTempOrder(i)
    \/ \E i \in Intents, c \in {NoCoupon, "SAVE"} :
          verifyPaymentAndCreateOrder(1, "u1", i, "valid", [items |-> Small, couponCode |-> c],
                                      "captured")
    \/ \E i \in Intents, k \in SigKinds :
          verifyPaymentAndCreateOrder(1, "u1", i, k, [items |-> Small, couponCode |-> NoCoupon],
                                      "captured")
    \/ \E f \in FailPoints : verifyTransaction(1, f, Tick, 0)
    \/ verifyRedisDel(1)
    \/ OrderSteps({1}, {Small, Missing}, {"CANCELLED"}, {"PAID"})

Spec == Init /\ [][Next]_vars

\* the three signature-checked entry points: correctly signed requests one
\* at a time, badly signed ones at any moment
NextSignature ==
    \/ createRazorpayOrderFromCart("u1", Snapshot(Small, 0, 0, NoCoupon)) /\ minted' <= MaxSessions
    \/ \E i \in Intents :
          verifyPaymentAndCreateOrder(1, "u1", i, "valid",
                                      [items |-> Small, couponCode |-> NoCoupon], "captured")
    \/ verifyTransaction(1, "none", Tick, 0)
    \/ verifyRedisDel(1)
    \/ Len(orders) < MaxLegacy /\ createOrder("u1", "CARD", Small, NoCoupon, "none")
    \/ \E id \in Targets : handleWebhook("valid", "payment.captured", id)
    \/ \E id \in Targets : verifyPayment("valid", id)
    \/ \E p \in Procs, i \in Intents, k \in BadKinds :
          verifyPaymentAndCreateOrder(p, "u1", i, k,
                                      [items |-> Small, couponCode |-> NoCoupon], "captured")
    \/ \E k \in BadKinds, e \in Events, id \in Targets \cup {NoOrder} : handleWebhook(k, e, id)
    \/ \E k \in BadKinds, id \in Targets \cup {NoOrder} : verifyPayment(k, id)

SpecSignature == Init /\ [][NextSignature]_vars

\* orders placed, cancelled by concurrent requests, shipped by the admin
NextCancel ==
    \/ \E pm \in {"COD", "CARD"}, l \in {Small, Pair}, c \in {NoCoupon, "SAVE"} :
          Len(orders) < MaxLegacy /\ createOrder("u1", pm, l, c, "none")
    \/ \E p \in Procs, u \in Users, id \in Targets : cancelOrder(p, u, id)
    \/ \E p \in Procs, f \in {"none", "stock", "coupon"} : cancelTransaction(p, f)
    \/ \E id \in Targets : updateOrderStatus(id, "SHIPPED")
    \/ redisDown
    \/ redisUp

SpecCancel == Init /\ [][NextCancel]_vars

\* the gateway's events, for existing, missing and absent order
\* references, around orders placed and moved on by the admin
NextWebhook ==
    \/ \E pm \in {"COD", "CARD"} :
          Len(orders) < MaxLegacy /\ createOrder("u1", pm, Small, NoCoupon, "none")
    \/ \E e \in Events, id \in Targets \cup {NoOrder} : handleWebhook("valid", e, id)
    \/ \E k \in BadKinds, e \in Events : handleWebhook(k, e, 1)
    \/ \E id \in Targets, st \in AdminStatuses : updateOrderStatus(id, st)

SpecWebhook == Init /\ [][NextWebhook]_vars

\* concurrent order creations through both paths
NextCreate ==
    \/ \E p \in Procs, q \in 1..MaxQty :
          createOrderBegin(p, "u1", "COD", <<Item("P1", NoVariant, q)>>, NoCoupon)
    \/ \E p \in Procs, f \in {"none", "order"} : createOrderCommit(p, f)
    \/ createRazorpayOrderFromCart("u1", Snapshot(Small, 0, 0, NoCoupon)) /\ minted' <= MaxSessions
    \/ \E i \in Intents :
          verifyPaymentAndCreateOrder(1, "u1", i, "valid",
                                      [items |-> Small, couponCode |-> NoCoupon], "captured")
    \/ verifyTransaction(1, "none", Tick, 0)
    \/ verifyRedisDel(1)

SpecCreate == Init /\ [][NextCreate]_vars

\* every handler that writes a stock counter: order creations running
\* concurrently with a confirmation or a cancellation, and the capture
\* webhook (which makes a cancelled order cancellable again)
NextStock ==
    \/ \E p \in Procs \ {1}, q \in {1, MaxQty} :
          createOrderBegin(p, "u1", "COD", <<Item("P1", NoVariant, q)>>, NoCoupon)
    \/ \E p \in Procs \ {1} : createOrderCommit(p, "none")
    \/ createRazorpayOrderFromCart("u1", Snapshot(Small, 0, 0, NoCoupon)) /\ minted' <= MaxSessions
    \/ \E i \in Intents :
          verifyPaymentAndCreateOrder(1, "u1", i, "valid",
                                      [items |-> Small, couponCode |-> NoCoupon], "captured")
    \/ verifyTransaction(1, "none", Tick, 0)
    \/ verifyRedisDel(1)
    \/ \E id \in Targets : cancelOrder(1, "u1", id)
    \/ cancelTransaction(1, "none")
    \/ \E id \in Targets : handleWebhook("valid", "payment.captured", id)

SpecStock == Init /\ [][NextStock]_vars

\* the item lists of the concurrent reserveStock calls: n - 1 variant items
\* followed by q of the product, q of the variant alone, and a list with
\* an unknown product
Basket(n, q) ==
    [k \in 1..n |-> IF k < n THEN Item("P1", "V1", 1) ELSE Item("P1", NoVariant, q)]

ReserveLists ==
    {Basket(n, q) : n \in 1..MaxItems, q \in 1..MaxQty}
    \cup {<<Item("P1", "V1", q)>> : q \in 1..MaxQty}
    \cup {Missing}

NextReserve ==
    \/ \E c \in Calls, items \in ReserveLists : reserveStockCall(c, items)
    \/ \E c \in Calls : reserveStockFind(c)
    \/ \E c \in Calls : reserveStockUpdate(c)

SpecReserve == Init /\ [][NextReserve]_vars

\* a snapshot whose items and subtotal are right and whose discount and
\* total are whatever the client declares
Declared(l, discount, total) ==
    [Snapshot(l, 0, 0, NoCoupon) EXCEPT !.discount = discount, !.total = total]

\* what ends up in an order's amounts and line prices: honest and
\* freely declared snapshots, confirmations for either cart, a variant
\* whose override price is removed and set again, and createOrder
NextPricing ==
    \/ \E l \in {Small, Pair}, c \in {NoCoupon, "SAVE"} :
          createRazorpayOrderFromCart("u1", Snapshot(l, 0, 0, c)) /\ minted' <= MaxSessions
    \/ \E d \in {0, CouponValue}, t \in {1, 10} :
          createRazorpayOrderFromCart("u1", Declared(Small, d, t)) /\ minted' <= MaxSessions
    \/ \E i \in Intents, l \in {Small, Pair}, c \in {NoCoupon, "SAVE"} :
          verifyPaymentAndCreateOrder(1, "u1", i, "valid", [items |-> l, couponCode |-> c],
                                      "captured")
    \/ verifyTransaction(1, "none", Tick, 0)
    \/ verifyRedisDel(1)
    \/ \E np \in {NoPrice, 13} : updateProduct("V1", np)
    \/ \E pm \in {"COD", "CARD"}, l \in {Small, Pair}, c \in {NoCoupon, "SAVE"} :
          Len(orders) < MaxLegacy /\ createOrder("u1", pm, l, c, "none")

SpecPricing == Init /\ [][NextPricing]_vars

\* orders placed directly, under every spelling of the payment method
PaymentMethods == {"COD", "cod", "Cash_On_Delivery", "CASH_ON_DELIVERY", "CARD", "card"}

NextDirect ==
    \/ \E pm \in PaymentMethods, l \in {Small, Pair}, c \in {NoCoupon, "SAVE"},
          f \in {"none", "order"} : createOrder("u1", pm, l, c, f)
    \/ \E id \in Targets : updateOrderStatus(id, "SHIPPED")

SpecDirect == Init /\ [][NextDirect]_vars

\* order lists read through the cache while redis comes and goes, orders
\* are placed and shipped, and keys expire
NextCache ==
    \/ createOrder("u1", "COD", Small, NoCoupon, "none")
    \/ \E p \in Procs, u \in Buyers : listOrders(p, u)
    \/ \E p \in Procs, f \in {"none", "db"} : listOrdersFn(p, f)
    \/ \E p \in Procs : listOrdersRespond(p)
    \/ \E u \in Buyers : cacheExpire(u)
    \/ redisDown
    \/ redisUp
    \/ \E id \in Targets : updateOrderStatus(id, "SHIPPED")

SpecCache == Init /\ [][NextCache]_vars

\* confirmations of several intents whose order numbers are drawn from a
\* few clock readings and random draws
Clock == 1..2
Randoms == 0..1

NextNumbers ==
    \/ createRazorpayOrderFromCart("u1", Snapshot(Small, 0, 0, NoCoupon))
    \/ \E i \in Intents :
          verifyPaymentAndCreateOrder(1, "u1", i, "valid",
                                      [items |-> Small, couponCode |-> NoCoupon], "captured")
    \/ \E now \in Clock, random \in Randoms : verifyTransaction(1, "none", now, random)
    \/ verifyRedisDel(1)

SpecNumbers == Init /\ [][NextNumbers]_vars

\* ------------------------------------------------------------------- C1
RECURSIVE QtyOf(_, _)
QtyOf(items, u) ==
    IF items = <<>> THEN 0
    ELSE (IF UnitOf(Head(items)) = u THEN Head(items).quantity ELSE 0) + QtyOf(Tail(items), u)

\* sum of f[1] .. f[n]
RECURSIVE SumTo(_, _)
SumTo(f, n) == IF n = 0 THEN 0 ELSE f[n] + SumTo(f, n - 1)

SuccessfulQty(u) ==
    SumTo([c \in Calls |-> IF rs[c].result = "success" THEN QtyOf(rs[c].items, u) ELSE 0],
          NumCalls)

\* C1: the quantities of the reserveStock calls that report success never
\* add up to more than a unit's available quantity, under every
\* interleaving, and a call whose item does not fit reports failure
\* without touching the counter.
C1_NoOverselling ==
    /\ [](\A u \in Units : SuccessfulQty(u) <= InitStock /\ stock[u] >= 0)
    /\ [][\A c \in Calls :
            (rs[c].pc = "update" /\ rs'[c] # rs[c]
               /\ stock[UnitOf(rs[c].items[rs[c].idx])] < rs[c].items[rs[c].idx].quantity)
            => (rs'[c].result = "failed" /\ stock' = stock)]_vars

C1_Witness ==
    \E c, d \in Calls :
        /\ rs[c].result = "success" /\ rs[d].result = "failed"
        /\ \E u \in Units : QtyOf(rs[c].items, u) + QtyOf(rs[d].items, u) > InitStock

\* ------------------------------------------------------------------- C2
OrdersOfIntent(i) == {k \in 1..Len(orders) : orders[k].paymentId = i}

\* C2: one payment intent yields at most one order, however its
\* confirmations are delivered (replayed or concurrent).
C2_OneOrderPerIntent ==
    \A i \in Intents : Cardinality(OrdersOfIntent(i)) <= 1

\* ------------------------------------------------------------------- C3
VerifyOp == "verifyPaymentAndCreateOrder"

\* C3: when the commit transaction fails after the stock reservation
\* succeeded (order, line-item, status-history, cart or coupon write),
\* stock, orders, cart and coupon usage are what they were before the call.
C3_AtomicCommit ==
    [][(resp'.op = VerifyOp /\ resp'.code = 500)
         => (stock' = stock /\ orders' = orders /\ usageCount' = usageCount /\ cart' = cart)]_vars

C3_Witness ==
    /\ resp.op = VerifyOp /\ resp.code = 500
    /\ \A u \in Units : stock[u] = InitStock
    /\ orders = <<>>

\* ------------------------------------------------------------------- C4
\* C4: when the reservation of a multi-item confirmation fails on an item
\* (insufficient stock or missing unit), every unit is at its pre-call
\* quantity when the call returns, no order is created and the caller
\* gets a 400 rejection.
C4_AllOrNothingReservation ==
    /\ [][(resp'.op = VerifyOp /\ resp'.msg \in {"not found", "Stock reservation failed"})
            => (stock' = stock /\ orders' = orders /\ resp'.code = 400)]_vars
    /\ [][\A p \in Procs :
            (req[p].op = "verify" /\ req[p].pc = "transaction" /\ req'[p] # req[p]
               /\ \E k \in 1..Len(req[p].body.items) :
                    LET it == req[p].body.items[k] IN
                      /\ \A j \in 1..(k - 1) : UnitOf(req[p].body.items[j]) # UnitOf(it)
                      /\ (UnitOf(it) \notin Units \/ stock[UnitOf(it)] < it.quantity))
            => (resp'.code = 400 /\ stock' = stock /\ orders' = orders)]_vars

C4_Witness ==
    /\ resp.op = VerifyOp /\ resp.code = 400 /\ resp.ref = 2
    /\ resp.msg = "Stock reservation failed"
    /\ \A u \in Units : stock[u] = InitStock

\* ------------------------------------------------------------------- C5
CapturedOn(id) == RespondRef("handleWebhook", 200, "valid", "payment.captured", id)

\* C5: a second delivery of the same payment.captured event for an
\* existing order changes nothing (no further status-history entry).
C5_IdempotentCapture ==
    [][\A id \in Targets : (resp = CapturedOn(id) /\ resp' = CapturedOn(id)) => orders' = orders]_vars

\* ------------------------------------------------------------------- C6
\* C6: a confirmation or webhook whose signature is missing or is not the
\* HMAC of its signing material is answered 400 and changes no order,
\* status history, stock counter, cart, coupon counter or intent record,
\* and never gets past the signature check.
C6_SignatureRejection ==
    /\ [][resp'.sig \in BadKinds
            => (/\ resp'.code = 400
                /\ UNCHANGED <<stock, orders, usageCount, cart, tempOrder, minted, req>>)]_vars
    /\ [](\A p \in Procs : req[p].op = "verify" => req[p].sig = "valid")

C6_Witness ==
    /\ resp.sig \in BadKinds /\ resp.op = VerifyOp
    /\ tempOrder[1] # NoIntent

\* ------------------------------------------------------------------- C7
\* the catalogue's price for an item: the variant's own price when it has
\* one, the product's otherwise
AuthoritativePrice(item) ==
    IF item.variantId # NoVariant /\ price[item.variantId] # NoPrice
    THEN price[item.variantId] ELSE price[item.productId]

RECURSIVE Recomputed(_)
Recomputed(items) ==
    IF items = <<>> THEN 0
    ELSE AuthoritativePrice(Head(items)) * Head(items).quantity + Recomputed(Tail(items))

Tampered(cartData) ==
    \/ \E k \in 1..Len(cartData.items) :
          cartData.items[k].price # AuthoritativePrice(cartData.items[k])
    \/ Abs(Recomputed(cartData.items) - cartData.subtotal) > Epsilon

\* C7: intent creation never binds a snapshot with a wrong unit price or a
\* subtotal off by more than the epsilon, and a rejected intent request
\* mints nothing and touches no intent record, order or stock.
C7_PriceMismatchRejected ==
    /\ [][\A i \in Intents :
            (tempOrder'[i] # tempOrder[i] /\ tempOrder'[i] # NoIntent)
            => ~Tampered(tempOrder'[i].cartData)]_vars
    /\ [][(resp'.op = "createRazorpayOrderFromCart" /\ resp'.code = 400)
            => UNCHANGED <<tempOrder, minted, stock, orders, usageCount, cart>>]_vars

C7_Witness ==
    /\ resp.op = "createRazorpayOrderFromCart" /\ resp.code = 400
    /\ resp.msg = "Price mismatch"

\* ------------------------------------------------------------------- C8
\* C8: an order is committed only if the prices of the snapshot bound to
\* the intent are still the authoritative ones at confirmation time.
C8_RevalidatedAtCommit ==
    [][\A p \in Procs :
         (req[p].op = "verify" /\ req[p].pc = "transaction" /\ Len(orders') > Len(orders)
            /\ req'[p] # req[p])
         => ~Tampered(req[p].temp.cartData)]_vars

\* ------------------------------------------------------------------- C9
RECURSIVE OrderedQty(_, _)
OrderedQty(ords, u) ==
    IF ords = <<>> THEN 0
    ELSE (IF Head(ords).status # "CANCELLED" THEN QtyOf(Head(ords).items, u) ELSE 0)
         + OrderedQty(Tail(ords), u)

\* C9: for each unit, initial stock minus current stock is the quantity of
\* that unit in the line items of the orders that are not cancelled.
C9_StockOrderPairing ==
    \A u \in Units : InitStock - stock[u] = OrderedQty(orders, u)

\* ------------------------------------------------------------------ C10
\* C10: the coupon's usageCount is the number of non-cancelled orders
\* that reference it.
C10_CouponUsageExact ==
    usageCount = Cardinality({k \in 1..Len(orders) :
                                orders[k].couponId # NoCoupon /\ orders[k].status # "CANCELLED"})

\* ------------------------------------------------------------------ C11
Cancelled(id) == RespondRef("cancelOrder", 200, "none", "success", id)

CancelEffect(id) ==
    /\ Len(orders') = Len(orders)
    /\ orders'[id].status = "CANCELLED"
    /\ orders'[id].statusHistory = Append(orders[id].statusHistory, "CANCELLED")
    /\ \A u \in Units : stock'[u] = stock[u] + QtyOf(orders[id].items, u)
    /\ usageCount' = usageCount - (IF orders[id].couponId # NoCoupon THEN 1 ELSE 0)

\* C11: a successful cancellation, in one step, sets the order CANCELLED,
\* appends one CANCELLED status-history entry, gives every line item's
\* quantity back to its unit and takes one use off the order's coupon; the
\* step of a cancellation does all of this or nothing, and a refused
\* cancellation changes nothing.
C11_CancelRestoresStock ==
    /\ [][\A p \in Procs :
            (req[p].op = "cancel" /\ req'[p] # req[p] /\ resp' = Cancelled(req[p].id))
            => CancelEffect(req[p].id)]_vars
    /\ [][\A p \in Procs :
            (req[p].op = "cancel" /\ req'[p] # req[p])
            => (CancelEffect(req[p].id) \/ UNCHANGED dbvars)]_vars
    /\ [][(resp'.op = "cancelOrder" /\ resp'.code = 404) => UNCHANGED dbvars]_vars

C11_Witness ==
    /\ resp = Cancelled(1)
    /\ orders[1].status = "CANCELLED" /\ orders[1].couponId # NoCoupon
    /\ \E k \in 1..Len(orders[1].items) : orders[1].items[k].variantId # NoVariant
    /\ \A u \in Units : stock[u] = InitStock
    /\ usageCount = 0

C13_StockNonNegative ==
    \A u \in Units : stock[u] \in Nat

C13_Witness ==
    /\ stock["P1"] = 0
    /\ resp.code = 400
    /\ resp.msg \in {"Insufficient stock", "Stock reservation failed"}

\* ------------------------------------------------------------------ C14
Forward ==
    {<<"PENDING", "CONFIRMED">>, <<"CONFIRMED", "PROCESSING">>, <<"PROCESSING", "SHIPPED">>,
     <<"SHIPPED", "OUT_FOR_DELIVERY">>, <<"OUT_FOR_DELIVERY", "DELIVERED">>}

StatusMove(before, after) ==
    \/ after.status = before.status
    \/ <<before.status, after.status>> \in Forward
    \/ before.status \in {"PENDING", "CONFIRMED"} /\ after.status = "CANCELLED"
    \/ after.status = "REFUNDED" /\ before.paymentStatus = "PAID"

\* C14: every change of an order's status is one of the defined
\* transitions.
C14_StatusTransitions ==
    [][\A id \in 1..Len(orders) : id <= Len(orders') => StatusMove(orders[id], orders'[id])]_vars

\* ------------------------------------------------------------------ C15
Terminal == {"DELIVERED", "CANCELLED", "REFUNDED"}

\* C15: an order whose status is DELIVERED, CANCELLED or REFUNDED keeps
\* that status.
C15_TerminalAbsorbing ==
    [][\A id \in 1..Len(orders) :
         (orders[id].status \in Terminal /\ id <= Len(orders'))
         => orders'[id].status = orders[id].status]_vars

\* ------------------------------------------------------------------ C16
PaymentMoves ==
    {<<"PENDING", "PAID">>, <<"PAID", "REFUNDED">>, <<"PAID", "PARTIAL_REFUND">>,
     <<"PENDING", "FAILED">>}

\* C16: every change of an order's paymentStatus is PENDING -> PAID,
\* PAID -> REFUNDED, PAID -> PARTIAL_REFUND or PENDING -> FAILED.
C16_PaymentTransitions ==
    [][\A id \in 1..Len(orders) :
         id <= Len(orders')
         => \/ orders'[id].paymentStatus = orders[id].paymentStatus
            \/ <<orders[id].paymentStatus, orders'[id].paymentStatus>> \in PaymentMoves]_vars

\* ------------------------------------------------------------------ C17
\* C17: a webhook whose signature is valid is answered 200, also when the
\* referenced order does not exist.
C17_ValidWebhookSucceeds ==
    [][(resp'.op = "handleWebhook" /\ resp'.sig = "valid") => resp'.code = 200]_vars

\* ------------------------------------------------------------------ C18
\* what identifies an order row and is not the webhook's to change
Row(order) == [userId |-> order.userId, items |-> order.items, couponId |-> order.couponId,
               subtotal |-> order.subtotal, totalAmount |-> order.totalAmount]

\* C18: handling a webhook leaves the set of order rows as it was; at
\* most the referenced, already existing order changes, in its status,
\* payment fields and history only.
C18_WebhookCreatesNoOrder ==
    [][resp'.op = "handleWebhook"
         => /\ Len(orders') = Len(orders)
            /\ \A id \in 1..Len(orders) :
                 /\ Row(orders'[id]) = Row(orders[id])
                 /\ orders'[id] # orders[id] => (resp'.ref = id /\ resp'.sig = "valid")]_vars

C18_Witness ==
    /\ resp = RespondRef("handleWebhook", 200, "valid", "payment.failed", 1)
    /\ Len(orders) = 1
    /\ orders[1].status = "CANCELLED" /\ orders[1].paymentStatus = "FAILED"

\* ------------------------------------------------------------------ C19
Entering(p) == req[p].op = "idle" /\ req'[p].op = "verify"

\* C19: a validly signed confirmation whose intent record is absent
\* (expired or deleted) never reaches the commit transaction; it is
\* answered 400 and leaves orders, stock, cart, coupon usage unchanged.
C19_LostIntentIsSafe ==
    /\ [][\A p \in Procs : Entering(p) => tempOrder[req'[p].intent] # NoIntent]_vars
    /\ [][(resp'.op = VerifyOp /\ resp'.msg = "Order session expired or not found")
            => (resp'.code = 400 /\ UNCHANGED <<stock, orders, usageCount, cart, tempOrder, req>>)]_vars

C19_Witness ==
    /\ resp = Respond(VerifyOp, 400, "valid", "Order session expired or not found")
    /\ minted > 0 /\ orders = <<>>
    /\ \A u \in Units : stock[u] = InitStock

\* ------------------------------------------------------------------ C20
\* C20: a confirmation by a user other than the intent's creator never
\* reaches the commit transaction; it is answered 400 "User mismatch",
\* changes no order, stock or coupon counter and leaves the intent record
\* in place.
C20_UserMismatchRejected ==
    /\ [][\A p \in Procs :
            Entering(p) => tempOrder[req'[p].intent].userId = req'[p].user]_vars
    /\ [][(resp'.op = VerifyOp /\ resp'.msg = "User mismatch")
            => (resp'.code = 400 /\ UNCHANGED <<stock, orders, usageCount, cart, tempOrder, req>>)]_vars
    /\ [](\A k \in 1..Len(orders) :
            orders[k].paymentId \in Intents => orders[k].userId \in Buyers)

C20_Witness ==
    /\ resp = Respond(VerifyOp, 400, "valid", "User mismatch")
    /\ tempOrder[1] # NoIntent /\ tempOrder[1].userId = "u1"
    /\ orders = <<>>

\* ------------------------------------------------------------------ C21
\* C21: every order's totalAmount is its subtotal minus its discountAmount
\* (no handler sets shippingFee or taxAmount, which default to 0), for
\* orders of createOrder and of verifyPaymentAndCreateOrder alike,
\* whatever amounts the client's snapshot declared.
C21_TotalIsDerived ==
    \A k \in 1..Len(orders) :
        orders[k].totalAmount = orders[k].subtotal - orders[k].discountAmount

\* ------------------------------------------------------------------ C22
CashOnDelivery == {"COD", "cod", "Cash_On_Delivery", "CASH_ON_DELIVERY"}

Placed == resp'.op = "createOrder" /\ resp'.code = 201

\* C22: createOrder, which checks no signature and reads no intent record,
\* creates a cash-on-delivery order as CONFIRMED / PENDING with the single
\* status-history entry CONFIRMED, and an order with any other payment
\* method as PENDING / PENDING with the single entry PENDING.
C22_CashOnDeliveryConfirmed ==
    [][Placed =>
         LET o == orders'[Len(orders')] IN
           /\ Len(orders') = Len(orders) + 1
           /\ UNCHANGED <<tempOrder, minted>>
           /\ o.paymentStatus = "PENDING"
           /\ o.status = (IF o.paymentMethod \in CashOnDelivery THEN "CONFIRMED" ELSE "PENDING")
           /\ o.statusHistory = <<o.status>>]_vars

C22_Witness ==
    /\ resp.op = "createOrder" /\ resp.code = 201
    /\ minted = 0 /\ tempOrder[1] = NoIntent
    /\ Len(orders) = 2
    /\ orders[1].paymentMethod = "cod" /\ orders[1].status = "CONFIRMED"
    /\ orders[1].paymentStatus = "PENDING" /\ orders[1].statusHistory = <<"CONFIRMED">>
    /\ orders[2].paymentMethod = "CARD" /\ orders[2].status = "PENDING"
    /\ orders[2].paymentStatus = "PENDING" /\ orders[2].statusHistory = <<"PENDING">>

\* ------------------------------------------------------------------ C23
\* the confirmation lists the items and quantities of the stored snapshot
SameItems(items, snapshot) ==
    /\ Len(items) = Len(snapshot)
    /\ \A k \in 1..Len(items) :
          /\ items[k].productId = snapshot[k].productId
          /\ items[k].variantId = snapshot[k].variantId
          /\ items[k].quantity = snapshot[k].quantity

Suffices(items) == \A u \in Units : QtyOf(items, u) <= stock[u]

Committing(p) == req[p].op = "verify" /\ req[p].pc = "transaction" /\ req'[p] # req[p]

Answering(p) == req[p].op = "verify" /\ req[p].pc = "redisDel" /\ req'[p] # req[p]

\* C23: for a validly signed, captured confirmation by the intent's user
\* that lists the snapshot's items while stock suffices, the commit (unless
\* a data-store write fails) appends one order CONFIRMED / PAID with the
\* single history entry CONFIRMED, lowers each unit's stock by exactly the
\* ordered quantity and empties the user's cart; the request then deletes
\* the intent record and answers 200, with exactly one order for the
\* intent.
C23_HappyPath ==
    /\ [][\A p \in Procs :
            (Committing(p) /\ SameItems(req[p].body.items, req[p].temp.cartData.items)
               /\ Suffices(req[p].body.items) /\ resp'.code # 500)
            => LET o == orders'[Len(orders')] IN
                 /\ Len(orders') = Len(orders) + 1
                 /\ o.status = "CONFIRMED" /\ o.paymentStatus = "PAID"
                 /\ o.userId = req[p].user /\ o.paymentId = req[p].intent
                 /\ o.statusHistory = <<"CONFIRMED">>
                 /\ SameItems(o.items, req[p].temp.cartData.items)
                 /\ \A u \in Units : stock'[u] = stock[u] - QtyOf(req[p].body.items, u)
                 /\ cart'[req[p].user] # "filled"
                 /\ req'[p].op = "verify" /\ req'[p].pc = "redisDel"]_vars
    /\ [][\A p \in Procs :
            Answering(p)
            => /\ tempOrder'[req[p].intent] = NoIntent
               /\ resp' = Respond(VerifyOp, 200, "valid", "success")
               /\ Cardinality(OrdersOfIntent(req[p].intent)) = 1
               /\ UNCHANGED dbvars]_vars

C23_Witness ==
    /\ resp = Respond(VerifyOp, 200, "valid", "success")
    /\ Len(orders) = 1 /\ Len(orders[1].items) = 2
    /\ orders[1].status = "CONFIRMED" /\ orders[1].paymentStatus = "PAID"
    /\ orders[1].statusHistory = <<"CONFIRMED">>
    /\ stock["V1"] = InitStock - 1 /\ stock["P1"] = 0
    /\ cart["u1"] = "empty"
    /\ tempOrder[1] = NoIntent

\* ------------------------------------------------------------------ C24
Listed(msg, total) == RespondRef("listOrders", 200, "none", msg, total)

\* C24: while redis does not answer, cacheWrapper serves nothing from the
\* cache and goes on to the wrapped data-store function; the function's
\* result is what the caller gets, whether or not it could be written to
\* the cache; and the only error a caller sees is the data store's.
C24_CacheDegradesToStore ==
    /\ [][resp'.op = "listOrders" /\ resp'.msg = "cached" => cache.up]_vars
    /\ [][\A p \in Procs :
            (req[p].op = "idle" /\ req'[p].op = "listOrders") => req'[p].pc = "fn"]_vars
    /\ [][\A p \in Procs :
            (req[p].op = "listOrders" /\ req[p].pc = "fn" /\ req'[p] # req[p]
               /\ resp'.code # 500)
            => /\ req'[p].pc = "setCache"
               /\ req'[p].data.total =
                    Cardinality({k \in 1..Len(orders) : orders[k].userId = req[p].user})]_vars
    /\ [][\A p \in Procs :
            (req[p].op = "listOrders" /\ req[p].pc = "setCache" /\ req'[p] # req[p])
            => /\ resp' = Listed("success", req[p].data.total)
               /\ ~cache.up => cache' = cache]_vars
    /\ [][(resp'.op = "listOrders" /\ resp'.code # 200)
            => \E p \in Procs : req[p].op = "listOrders" /\ req[p].pc = "fn"
                                 /\ req'[p] # req[p]]_vars

C24_Witness ==
    /\ resp = Listed("success", 1)
    /\ ~cache.up
    /\ cache.keys["u1"] = Miss
    /\ Len(orders) = 1

\* ------------------------------------------------------------------ C25
\* C25: no two orders carry the same order number, and the commit of a
\* validly confirmed intent whose stock suffices creates its order even
\* when the number it first generates is already taken.
C25_UniqueNumbersWithRetry ==
    /\ [](\A j, k \in 1..Len(orders) : j # k => orders[j].orderNumber # orders[k].orderNumber)
    /\ [][\A p \in Procs :
            (Committing(p) /\ Suffices(req[p].body.items))
            => Len(orders') = Len(orders) + 1]_vars

\* ------------------------------------------------------------------ C26
\* C26: a createOrder call that is rejected (an item out of stock, its
\* product missing, or the coupon invalid) leaves the stock of every unit
\* at its value before the call, the items processed before the failing
\* one included, and creates no order.
C26_RejectionRollsBack ==
    [][(resp'.op = "createOrder" /\ resp'.code \in {400, 404})
         => (stock' = stock /\ orders' = orders)]_vars

\* ------------------------------------------------------------------ C27
\* C27: every line item of an order created by verifyPaymentAndCreateOrder
\* carries the authoritative unit price at the time of the commit: the
\* variant's override price when the variant has one, the product's price
\* otherwise.
C27_LinePriceAuthoritative ==
    [][\A p \in Procs :
         (Committing(p) /\ Len(orders') > Len(orders))
         => LET o == orders'[Len(orders')] IN
              \A k \in 1..Len(o.items) : o.items[k].price = AuthoritativePrice(o.items[k])]_vars

\* ------------------------------------------------------------------ C28
\* C28: the order committed for an intent, and the stock reserved for it,
\* are for exactly the items and quantities of the snapshot stored with
\* the intent, whatever items the confirmation's body lists.
C28_OrderMatchesSnapshot ==
    [][\A p \in Procs :
         (Committing(p) /\ Len(orders') > Len(orders))
         => /\ SameItems(orders'[Len(orders')].items, req[p].temp.cartData.items)
            /\ \A u \in Units :
                  stock'[u] = stock[u] - QtyOf(req[p].temp.cartData.items, u)]_vars

\* ------------------------------------------------------------------ C29
RECURSIVE Count(_, _)
Count(seq, x) ==
    IF seq = <<>> THEN 0 ELSE (IF Head(seq) = x THEN 1 ELSE 0) + Count(Tail(seq), x)

\* C29: however many cancelOrder requests address an order, and however
\* they interleave, its stock is given back once, its coupon use is taken
\* off once and one CANCELLED status-history entry is appended: a
\* cancellation step on an order that is already CANCELLED changes
\* nothing, no order has two CANCELLED entries, no unit holds more than
\* its initial stock and usageCount is not negative.
C29_CancelOnce ==
    /\ [][\A p \in Procs :
            (req[p].op = "cancel" /\ req'[p] # req[p]
               /\ orders[req[p].id].status = "CANCELLED")
            => UNCHANGED dbvars]_vars
    /\ [](/\ \A id \in 1..Len(orders) : Count(orders[id].statusHistory, "CANCELLED") <= 1
          /\ \A u \in Units : stock[u] <= InitStock
          /\ usageCount >= 0)

\* ------------------------------------------------------------------ C30
\* C30: the coupon's usageCount never exceeds its usageLimit, whatever
\* sequence of createOrder and verifyPaymentAndCreateOrder calls applies
\* the coupon, and never goes below 0.
C30_UsageWithinLimit ==
    usageCount <= UsageLimit /\ usageCount >= 0
====
